---- MODULE Spec2Model ----
(***************************************************************************)
(* Link resolution and media normalisation of nonebot-plugin-parser:       *)
(* DouyinParser (parsers/douyin/__init__.py) and XiaoHongShuParser         *)
(* (parsers/xiaohongshu.py).  One request is followed from the dispatch of *)
(* its text to a handler, through the handler's fallback chain, the        *)
(* concurrent image conversions and the assembly of the result.            *)
(*                                                                         *)
(* Texts and URLs are sequences of tokens ("m.", "douyin", ".com", "/",    *)
(* ...): a keyword occurs in a text when its tokens do, consecutively, and *)
(* a pattern is a sequence of token classes followed by a greedy tail.     *)
(***************************************************************************)
EXTENDS Naturals, Sequences, FiniteSets

VARIABLES
  registry,       \* the (keyword, pattern, handler) rules, in registration order
  request,        \* which request of the parser instance is being served
  text,           \* the text still to be dispatched (<<>> once dispatched)
  searched,       \* the re.Match handed to the handler: rule, group(0), ty
  pc,             \* where the request is
  trace,          \* what the request did: dispatches, redirects, strategy attempts
  chain_i,        \* position in the handler's fallback chain (0: none entered)
  data,           \* what the last strategy read of the data it extracted
  image_urls,     \* the image URLs whose conversion was launched
  conv,           \* the conversion tasks' return values, in completion order
  results,        \* parse_*'s local `results` after gather and sort
  image_sources,  \* parse_*'s local `image_sources`
  jpg_tasks,      \* the _create_jpg_task tasks created and not yet run (FIFO)
  _temp_files,    \* self._temp_files
  outcome         \* what the request returned or raised

vars == <<registry, request, text, searched, pc, trace, chain_i, data, image_urls, conv,
          results, image_sources, jpg_tasks, _temp_files, outcome>>

\* ---------------------------------------------------------------- bounds

\* Links in one input text.
MaxLinks == 2
\* Rules removed from the registry when the dispatcher is checked alone.
MaxRemoved == 1
\* Images of one post.
MaxImages == 2
\* Dynamic (live photo) items of one slides post.
MaxDynamic == 1
\* Redirects followed for one request.
MaxRedirects == 1
\* Requests served by one parser instance.
MaxRequests == 2
\* Entries of one stream list (h264, h265, av1, h266) of a video.
MaxEntries == 2

\* ------------------------------------------------------- values and helpers

None == "None"

Range(s) == {s[i] : i \in 1..Len(s)}

\* All sequences over S of length at most n.
RECURSIVE SeqsUpTo(_, _)
SeqsUpTo(S, n) ==
  IF n = 0 THEN {<<>>}
  ELSE LET shorter == SeqsUpTo(S, n - 1)
       IN shorter \cup {Append(s, x) : s \in {t \in shorter : Len(t) = n - 1}, x \in S}

\* `s` with its first occurrence of token `old` replaced by `new`
\* (str.replace(old, new, 1) on one token).
RECURSIVE ReplaceFirst(_, _, _)
ReplaceFirst(s, old, new) ==
  IF s = <<>> THEN <<>>
  ELSE IF Head(s) = old THEN <<new>> \o Tail(s)
  ELSE <<Head(s)>> \o ReplaceFirst(Tail(s), old, new)

\* ------------------------------------------------------------- dispatcher

DouyinTypes == {"slides", "video", "note"}
IdChars == {"abc", "123"}
QueryChars == {"abc", "123", "?", "/", "q=1"}

\* Whether the tokens of `kw` occur consecutively in `t` (Python's `kw in t`).
KeywordIn(kw, t) ==
  \E p \in 1..(Len(t) + 1) :
     /\ p + Len(kw) - 1 <= Len(t)
     /\ \A k \in 1..Len(kw) : t[p + k - 1] = kw[k]

\* How many tokens of the class `cls` follow position p of t (a greedy `[...]*`).
RECURSIVE TailRun(_, _, _)
TailRun(t, p, cls) ==
  IF p > Len(t) \/ t[p] \notin cls THEN 0 ELSE 1 + TailRun(t, p + 1, cls)

\* Whether pattern `pat` matches t at position p.
MatchesAt(pat, t, p) ==
  /\ p + Len(pat.fixed) - 1 <= Len(t)
  /\ \A k \in 1..Len(pat.fixed) : t[p + k - 1] \in pat.fixed[k]

\* re.search: the leftmost match, as [found, group0, ty, id] (found = FALSE: None).
Search(pat, t) ==
  LET hits == {p \in 1..Len(t) : MatchesAt(pat, t, p)}
  IN IF hits = {} THEN [found |-> FALSE, group0 |-> <<>>, ty |-> None, id |-> None]
     ELSE LET p == CHOOSE q \in hits : \A r \in hits : q <= r
              n == Len(pat.fixed) + TailRun(t, p + Len(pat.fixed), pat.tail)
          IN [found |-> TRUE,
              group0 |-> SubSeq(t, p, p + n - 1),
              ty |-> IF pat.ty = 0 THEN None ELSE t[p + pat.ty - 1],
              id |-> IF pat.id = 0 THEN None ELSE t[p + pat.id - 1]]

\* One @handle(keyword, pattern) rule of a handler.
\* ty, id: the positions of the named groups in the pattern (0: no such group).
Rule(keyword, fixed, tail, ty, id, handler) ==
  [keyword |-> keyword,
   pat |-> [fixed |-> fixed, tail |-> tail, ty |-> ty, id |-> id],
   handler |-> handler]

\* The rules of DouyinParser, a function's decorators applied bottom-up.
DouyinRules ==
  << Rule(<<"jx.", "douyin">>,
          <<{"jx."}, {"douyin"}, {".com"}, {"/"}, IdChars>>, {}, 0, 0,
          "Douyin_parse_short_link"),
     Rule(<<"v.", "douyin">>,
          <<{"v."}, {"douyin"}, {".com"}, {"/"}, IdChars>>, {}, 0, 0,
          "Douyin_parse_short_link"),
     Rule(<<"jingxuan.", "douyin">>,
          <<{"jingxuan."}, {"douyin"}, {".com"}, {"/"}, {"m"}, {"/"}, DouyinTypes, {"/"}, {"123"}>>,
          {}, 7, 9, "_parse_douyin"),
     Rule(<<"m.", "douyin">>,
          <<{"m."}, {"douyin"}, {".com"}, {"/"}, {"share"}, {"/"}, DouyinTypes, {"/"}, {"123"}>>,
          {}, 7, 9, "_parse_douyin"),
     Rule(<<"ies", "douyin">>,
          <<{"ies"}, {"douyin"}, {".com"}, {"/"}, {"share"}, {"/"}, DouyinTypes, {"/"}, {"123"}>>,
          {}, 7, 9, "_parse_douyin"),
     Rule(<<"douyin">>,
          <<{"douyin"}, {".com"}, {"/"}, {"video", "note"}, {"/"}, {"123"}>>,
          {}, 4, 6, "_parse_douyin") >>

\* The rules of XiaoHongShuParser.
XhsRules ==
  << Rule(<<"xhslink", ".com">>,
          <<{"xhslink"}, {".com"}, {"/"}>>, QueryChars, 0, 0,
          "Xhs_parse_short_link"),
     Rule(<<"hongshu", ".com", "/", "explore">>,
          <<{"explore"}, {"/"}, IdChars, {"?"}>>, QueryChars, 0, 3,
          "_parse_explore"),
     Rule(<<"hongshu", ".com", "/", "discovery/item", "/">>,
          <<{"discovery/item"}, {"/"}, IdChars, {"?"}>>, QueryChars, 0, 3,
          "_parse_discovery") >>

Rules == DouyinRules \o XhsRules

NotMatched == [rule |-> 0, keyword |-> <<>>, handler |-> "NotMatched",
               group0 |-> <<>>, ty |-> None, id |-> None]

\* The first rule of `reg`, from position i on, whose keyword occurs in t and
\* whose pattern matches; NotMatched when there is none.
RECURSIVE MatchFrom(_, _, _)
MatchFrom(reg, t, i) ==
  IF i > Len(reg) THEN NotMatched
  ELSE IF KeywordIn(reg[i].keyword, t) /\ Search(reg[i].pat, t).found
  THEN LET m == Search(reg[i].pat, t)
       IN [rule |-> i, keyword |-> reg[i].keyword, handler |-> reg[i].handler,
           group0 |-> m.group0, ty |-> m.ty, id |-> m.id]
  ELSE MatchFrom(reg, t, i + 1)

\* The last matching rule instead of the first.
RECURSIVE MatchBack(_, _, _)
MatchBack(reg, t, i) ==
  IF i < 1 THEN NotMatched
  ELSE IF KeywordIn(reg[i].keyword, t) /\ Search(reg[i].pat, t).found
  THEN LET m == Search(reg[i].pat, t)
       IN [rule |-> i, keyword |-> reg[i].keyword, handler |-> reg[i].handler,
           group0 |-> m.group0, ty |-> m.ty, id |-> m.id]
  ELSE MatchBack(reg, t, i - 1)

match_LastWins(reg, t) == MatchBack(reg, t, Len(reg))

match(reg, t) == MatchFrom(reg, t, 1)

\* The links a text can hold.
Links ==
     {<<h, "douyin", ".com", "/", "abc">> : h \in {"v.", "jx."}}
  \cup {<<"www.", "douyin", ".com", "/", ty, "/", "123">> : ty \in DouyinTypes}
  \cup {<<h, "douyin", ".com", "/", "share", "/", ty, "/", "123">> :
          h \in {"m."}, ty \in DouyinTypes}
  \cup {<<"www.", "ies", "douyin", ".com", "/", "share", "/", ty, "/", "123">> :
          ty \in DouyinTypes}
  \cup {<<"jingxuan.", "douyin", ".com", "/", "m", "/", ty, "/", "123">> :
          ty \in {"video", "slides"}}
  \cup {<<"xhslink", ".com", "/", "abc">>}
  \cup {<<"www.", "xiao", "hongshu", ".com", "/", r, "/", "abc", "?", "q=1">> :
          r \in {"explore", "discovery/item"}}
  \cup {<<"www.", "xiao", "hongshu", ".com", "/", "explore", "/", "abc">>,
        <<"example", ".com", "/", "abc">>}

\* Texts: up to MaxLinks links, separated by blanks.
RECURSIVE TextsOf(_)
TextsOf(n) ==
  IF n = 0 THEN {<<>>}
  ELSE LET shorter == TextsOf(n - 1)
       IN shorter \cup {IF t = <<>> THEN l ELSE t \o <<" ">> \o l :
                          t \in shorter, l \in Links}

Texts == TextsOf(MaxLinks) \ {<<>>}

\* The links requests are followed from, and short links redirect to: one
\* per handler and kind of post, and one that no rule matches.
RequestLinks ==
  { <<"v.", "douyin", ".com", "/", "abc">>,
    <<"www.", "douyin", ".com", "/", "video", "/", "123">>,
    <<"m.", "douyin", ".com", "/", "share", "/", "slides", "/", "123">>,
    <<"www.", "ies", "douyin", ".com", "/", "share", "/", "note", "/", "123">>,
    <<"xhslink", ".com", "/", "abc">>,
    <<"www.", "xiao", "hongshu", ".com", "/", "explore", "/", "abc", "?", "q=1">>,
    <<"www.", "xiao", "hongshu", ".com", "/", "discovery/item", "/", "abc", "?", "q=1">>,
    <<"example", ".com", "/", "abc">> }

\* Registries: Rules with at most MaxRemoved rules removed.
RECURSIVE Without(_, _)
Without(reg, gone) ==
  IF reg = <<>> THEN <<>>
  ELSE IF Head(reg).keyword \in gone THEN Without(Tail(reg), gone)
  ELSE <<Head(reg)>> \o Without(Tail(reg), gone)

Keywords == {Rules[i].keyword : i \in 1..Len(Rules)}

Registries ==
  {Without(Rules, gone) : gone \in {g \in SUBSET Keywords : Cardinality(g) <= MaxRemoved}}

\* ------------------------------------------------- exceptions and outcomes

Exc(type, msg) == [type |-> type, msg |-> msg]
NoExc == Exc("none", <<>>)

NoOutcome == [kind |-> "none", contents |-> <<>>, exc |-> NoExc]
Result(contents) == [kind |-> "result", contents |-> contents, exc |-> NoExc]
Error(exc) == [kind |-> "error", contents |-> <<>>, exc |-> exc]

\* What a strategy's fetch got: the transport's verdict, the status and
\* whether the body holds the state marker.
Page(net, status, marker) == [net |-> net, status |-> status, marker |-> marker]
NoPage == Page("none", 0, "none")

\* One entry of the trace: a dispatch, a redirect or a strategy attempt.
\* st: "running", "ok" or "failed"; launched: conversion tasks were started;
\* page: what the attempt's fetch got.
Ev(op, arg, st, exc, launched, page) ==
  [op |-> op, arg |-> arg, st |-> st, exc |-> exc, launched |-> launched,
   page |-> page]

Strategies == {"parse_video", "parse_slides", "parse_explore", "parse_discovery"}

Last(s) == s[Len(s)]

\* The trace with its last entry ended in st.
EndLast(tr, st, exc) ==
  [tr EXCEPT ![Len(tr)].st = st, ![Len(tr)].exc = exc]

\* The strategy attempts of the trace, in order.
Attempts(tr) == SelectSeq(tr, LAMBDA e : e.op \in Strategies)

\* ---------------------------------------------------------- fetched pages

Statuses == {200, 302, 403}
Urls == {"u0", "u1"}
UrlSeqs == SeqsUpTo(Urls, MaxImages)
DynSeqs == SeqsUpTo({"d0"}, MaxDynamic)
VideoUrl == "V"

\* msgspec's `video: Video | None`: absent, or a Video whose video_url
\* property gives a master URL or None.
NoVideo == [present |-> FALSE, video_url |-> None]
Videos == {NoVideo} \cup [present : {TRUE}, video_url : {None, VideoUrl}]

\* normalNotePreloadData: an empty dict, or its imagesList.
NoPreload == [present |-> FALSE, image_urls |-> <<>>]
Preloads == {NoPreload} \cup [present : {TRUE}, image_urls : {<<>>, <<"p0">>}]

NoData == [type |-> "none", image_urls |-> <<>>, video |-> NoVideo,
           preload |-> NoPreload, dynamic_urls |-> <<>>]

\* What the strategies read of the decoded data: the image_urls, video_url
\* and dynamic_urls properties.
View(image_urls_, video_url, dynamic_urls) ==
  [image_urls |-> image_urls_, video_url |-> video_url,
   dynamic_urls |-> dynamic_urls]
NoView == View(<<>>, None, <<>>)

\* RouterData.video_data of a Douyin page: image_urls, video_url.
DouyinData == [type : {"douyin"}, image_urls : UrlSeqs,
               video : {NoVideo, [present |-> TRUE, video_url |-> VideoUrl]},
               preload : {NoPreload}, dynamic_urls : {<<>>}]

\* SlidesInfo.aweme_details[0]: image_urls, dynamic_urls.
SlidesData == [type : {"slides"}, image_urls : UrlSeqs, video : {NoVideo},
               preload : {NoPreload}, dynamic_urls : DynSeqs]

\* NoteDetail of an explore page.
ExploreData == [type : {"video", "normal"}, image_urls : UrlSeqs, video : Videos,
                preload : {NoPreload}, dynamic_urls : {<<>>}]

\* NoteData and NormalNotePreloadData of a discovery page.
DiscoveryData == [type : {"video", "normal"}, image_urls : UrlSeqs, video : Videos,
                  preload : Preloads, dynamic_urls : {<<>>}]

\* A page body: the state marker absent, present with an empty payload, or
\* present with a payload that is not decodable ("undecodable"), lacks the
\* note ("nodetail"), violates the schema ("badschema"), holds an empty
\* aweme_details ("nodetails") or decodes to data.
Body(marker, payload, d) == [marker |-> marker, payload |-> payload, data |-> d]

BodiesOf(payloads, datas) ==
     {Body("absent", "none", NoData), Body("present", "empty", NoData)}
  \cup {Body("present", p, NoData) : p \in payloads}
  \cup {Body("present", "ok", d) : d \in datas}

\* A response: a transport failure, or a status and a body.
Response(net, status, body) == [net |-> net, status |-> status, body |-> body]

\* A redirect answers with a body without the marker; the other statuses
\* come with any body.
ResponsesOf(bodies) ==
     {Response("transport", 0, Body("absent", "none", NoData))}
  \cup {Response("ok", s, b) : s \in Statuses \ {302}, b \in bodies}
  \cup {Response("ok", 302, Body("absent", "none", NoData))}

DouyinResponses == ResponsesOf(BodiesOf({"undecodable"}, DouyinData))
SlidesResponses == ResponsesOf(BodiesOf({"undecodable", "nodetails"}, SlidesData))
ExploreResponses ==
  ResponsesOf(BodiesOf({"undecodable", "nodetail", "badschema"}, ExploreData))
DiscoveryResponses ==
  ResponsesOf(BodiesOf({"undecodable", "nodetail", "badschema"}, DiscoveryData))

\* What a step of a coroutine gives: a value, or an exception raised.
Returned(v) == [raised |-> FALSE, exc |-> NoExc, value |-> v]
Raised(exc) == [raised |-> TRUE, exc |-> exc, value |-> NoData]

\* ------------------------------------------------- fetch and extraction

StatusStr(s) == IF s = 200 THEN "200" ELSE IF s = 302 THEN "302" ELSE "403"

TransportError == Exc("httpx.TransportError", <<"transport">>)

\* The content of a result: an image, a video or a dynamic item.
Content(kind, src, cover) == [kind |-> kind, src |-> src, cover |-> cover]

\* Python values of the image pipeline: bytes, str, None.
Bytes(u) == <<"bytes", u>>
Str(u) == <<"str", u>>
NoneValue == <<"None", "None">>
Truthy(v) == v[1] \in {"bytes", "str"}

create_video_content(video_url, cover_url) ==
  Content("video", Str(video_url), cover_url)

create_dynamic_contents(dynamic_urls) ==
  [k \in 1..Len(dynamic_urls) |-> Content("dynamic", Str(dynamic_urls[k]), NoneValue)]

\* What a strategy's code up to its gather gives: an exception (with what
\* was read of the data before it), the launch of the conversions of
\* d.image_urls, or the contents of the result.
Plan(raised, exc, v, launch, contents) ==
  [raised |-> raised, exc |-> exc, data |-> v, launch |-> launch,
   contents |-> contents]
PlanRaise(exc) == Plan(TRUE, exc, NoView, FALSE, <<>>)
PlanLaunch(v) == Plan(FALSE, NoExc, v, TRUE, <<>>)
PlanReturn(v, contents) == Plan(FALSE, NoExc, v, FALSE, contents)

\* parse_video up to the decoding of RouterData.
parse_video_extract(resp) ==
  IF resp.net = "transport" THEN Raised(TransportError)
  ELSE IF resp.status # 200
  THEN Raised(Exc("ParseException", <<"status:", StatusStr(resp.status)>>))
  ELSE IF resp.body.marker = "absent" \/ resp.body.payload = "empty"
  THEN Raised(Exc("ParseException", <<"can't find", "_ROUTER_DATA", "in html">>))
  ELSE IF resp.body.payload # "ok"
  THEN Raised(Exc("msgspec.DecodeError", <<"decode">>))
  ELSE Returned(resp.body.data)

\* parse_video on the decoded video_data: images first, then the video.
parse_video_contents(d) ==
  LET v == View(d.image_urls, d.video.video_url, <<>>)
  IN IF v.image_urls # <<>> THEN PlanLaunch(v)
     ELSE IF v.video_url # None
     THEN PlanReturn(v, <<create_video_content(v.video_url, Str("cover"))>>)
     ELSE PlanReturn(v, <<>>)

parse_video_plan(resp) ==
  LET e == parse_video_extract(resp)
  IN IF e.raised THEN PlanRaise(e.exc) ELSE parse_video_contents(e.value)

\* parse_slides up to aweme_details[0].
parse_slides_extract(resp) ==
  IF resp.net = "transport" THEN Raised(TransportError)
  ELSE IF resp.status < 200 \/ resp.status >= 300
  THEN Raised(Exc("httpx.HTTPStatusError", <<"status:", StatusStr(resp.status)>>))
  ELSE IF resp.body.payload = "nodetails"
  THEN Raised(Exc("IndexError", <<"list index out of range">>))
  ELSE IF resp.body.payload # "ok"
  THEN Raised(Exc("msgspec.DecodeError", <<"decode">>))
  ELSE Returned(resp.body.data)

\* parse_slides on slides_data: with images the conversions are launched and
\* the dynamic contents follow the gather; without, they are the contents.
parse_slides_contents(d) ==
  LET v == View(d.image_urls, None, d.dynamic_urls)
  IN IF v.image_urls # <<>> THEN PlanLaunch(v)
     ELSE PlanReturn(v, create_dynamic_contents(v.dynamic_urls))

parse_slides_plan(resp) ==
  LET e == parse_slides_extract(resp)
  IN IF e.raised THEN PlanRaise(e.exc) ELSE parse_slides_contents(e.value)

\* _extract_initial_state_json without its `if not matched`: group(1) is
\* asked of None.
_extract_initial_state_json_NoCheck(body) ==
  IF body.marker = "absent"
  THEN Raised(Exc("AttributeError", <<"'NoneType' object has no attribute 'group'">>))
  ELSE IF body.payload \in {"undecodable", "empty"}
  THEN Raised(Exc("json.JSONDecodeError", <<"decode">>))
  ELSE Returned(body.data)

\* _extract_initial_state_json: the marker, then json.loads.
_extract_initial_state_json(body) ==
  IF body.marker = "absent"
  THEN Raised(Exc("ParseException",
                  <<"xiaohongshu share link invalid or content deleted">>))
  ELSE IF body.payload \in {"undecodable", "empty"}
  THEN Raised(Exc("json.JSONDecodeError", <<"decode">>))
  ELSE Returned(body.data)

\* A stream list, `list[dict[str, Any]] | None = None`: absent (None), or its
\* entries, each with a masterUrl.
NoList == [present |-> FALSE, entries |-> <<>>]
MasterUrls == {"s0", "s1"}
StreamLists ==
  {NoList} \cup
  [present : {TRUE}, entries : SeqsUpTo([masterUrl : MasterUrls], MaxEntries)]

\* `if stream.h265:`: the list is there and not empty.
HasEntries(l) == l.present /\ l.entries # <<>>

Streams == [h264 : StreamLists, h265 : StreamLists, av1 : StreamLists,
            h266 : StreamLists]
NoStream == [h264 |-> NoList, h265 |-> NoList, av1 |-> NoList, h266 |-> NoList]

\* Video.video_url with h264 looked at before h265.
Video_video_url_H264First(stream) ==
  IF HasEntries(stream.h264) THEN stream.h264.entries[1].masterUrl
  ELSE IF HasEntries(stream.h265) THEN stream.h265.entries[1].masterUrl
  ELSE IF HasEntries(stream.av1) THEN stream.av1.entries[1].masterUrl
  ELSE IF HasEntries(stream.h266) THEN stream.h266.entries[1].masterUrl
  ELSE None

\* Video.video_url: h265, then h264, av1, h266.
Video_video_url(stream) ==
  IF HasEntries(stream.h265) THEN stream.h265.entries[1].masterUrl
  ELSE IF HasEntries(stream.h264) THEN stream.h264.entries[1].masterUrl
  ELSE IF HasEntries(stream.av1) THEN stream.av1.entries[1].masterUrl
  ELSE IF HasEntries(stream.h266) THEN stream.h266.entries[1].masterUrl
  ELSE None

\* The notes Video.video_url is checked on: the type, and the video (None, or
\* a Video with its media.stream).
StreamNotes ==
     [type : {"video", "normal"}, video : {[present |-> FALSE, stream |-> NoStream]}]
  \cup [type : {"video", "normal"}, video : [present : {TRUE}, stream : Streams]]

\* NoteDetail.video_url and NoteData.video_url.
Note_video_url(d) ==
  IF d.type # "video" \/ ~d.video.present THEN None ELSE d.video.video_url

\* parse_explore up to convert(note_data, type=NoteDetail); the response's
\* status is not looked at.
parse_explore_extract(resp) ==
  IF resp.net = "transport" THEN Raised(TransportError)
  ELSE LET j == _extract_initial_state_json(resp.body)
       IN IF j.raised THEN j
          ELSE IF resp.body.payload = "nodetail"
          THEN Raised(Exc("ParseException", <<"can't find note detail in json_obj">>))
          ELSE IF resp.body.payload = "badschema"
          THEN Raised(Exc("msgspec.ValidationError", <<"convert">>))
          ELSE j

\* parse_explore on note_detail: the video first, then the images.
parse_explore_contents(d) ==
  LET v == View(d.image_urls, Note_video_url(d), <<>>)
  IN IF v.video_url # None
     THEN PlanReturn(v, <<create_video_content(v.video_url,
                            IF v.image_urls # <<>> THEN Str(v.image_urls[1])
                            ELSE NoneValue)>>)
     ELSE IF v.image_urls # <<>> THEN PlanLaunch(v)
     ELSE PlanReturn(v, <<>>)

parse_explore_plan(resp) ==
  LET e == parse_explore_extract(resp)
  IN IF e.raised THEN PlanRaise(e.exc) ELSE parse_explore_contents(e.value)

\* parse_discovery up to convert(note_data, type=NoteData).
parse_discovery_extract(resp) ==
  IF resp.net = "transport" THEN Raised(TransportError)
  ELSE LET j == _extract_initial_state_json(resp.body)
       IN IF j.raised THEN j
          ELSE IF resp.body.payload = "nodetail"
          THEN Raised(Exc("ParseException", <<"can't find noteData in json_obj">>))
          ELSE IF resp.body.payload = "badschema"
          THEN Raised(Exc("msgspec.ValidationError", <<"convert">>))
          ELSE j

\* parse_discovery on note_data: the video with img_urls[0] as its cover,
\* then the images.
parse_discovery_contents(d) ==
  LET v == View(d.image_urls, Note_video_url(d), <<>>)
  IN IF v.video_url # None
     THEN LET img_urls == IF d.preload.present THEN d.preload.image_urls
                          ELSE v.image_urls
          IN IF img_urls = <<>>
             THEN Plan(TRUE, Exc("IndexError", <<"list index out of range">>),
                       v, FALSE, <<>>)
             ELSE PlanReturn(v, <<create_video_content(v.video_url,
                                                      Str(img_urls[1]))>>)
     ELSE IF v.image_urls # <<>> THEN PlanLaunch(v)
     ELSE PlanReturn(v, <<>>)

parse_discovery_plan(resp) ==
  LET e == parse_discovery_extract(resp)
  IN IF e.raised THEN PlanRaise(e.exc) ELSE parse_discovery_contents(e.value)

\* ------------------------------------------------------ media conversion

\* How one conversion goes: "ok", or the step that raises.
ConvertKinds == {"ok", "fetch", "status", "decode", "encode"}

ConvertExc(kind) ==
  IF kind = "fetch" THEN TransportError
  ELSE IF kind = "status" THEN Exc("httpx.HTTPStatusError", <<"status">>)
  ELSE IF kind = "decode" THEN Exc("PIL.UnidentifiedImageError", <<"decode">>)
  ELSE Exc("OSError", <<"encode">>)

\* _convert_webp_to_jpg catching httpx's errors only: a decode or encode
\* error leaves the task.
_convert_webp_to_jpg_HttpOnly(url, index, kind) ==
  LET try == IF kind = "ok" THEN Returned(<<index, Bytes(url)>>)
             ELSE Raised(ConvertExc(kind))
  IN IF try.raised /\ kind \in {"fetch", "status"}
     THEN Returned(<<index, NoneValue>>) ELSE try

\* _convert_webp_to_jpg without its try/except: what raises leaves the task.
_convert_webp_to_jpg_NoExcept(url, index, kind) ==
  IF kind = "ok" THEN Returned(<<index, Bytes(url)>>) ELSE Raised(ConvertExc(kind))

\* _convert_webp_to_jpg forgetting its index argument (the default, 0).
_convert_webp_to_jpg_NoIndex(url, index, kind) ==
  IF kind = "ok" THEN Returned(<<0, Bytes(url)>>) ELSE Returned(<<0, NoneValue>>)

\* _convert_webp_to_jpg(url, index): (index, jpg bytes), or (index, None)
\* when anything in the try block raised.
_convert_webp_to_jpg(url, index, kind) ==
  LET try == IF kind = "ok" THEN Returned(<<index, Bytes(url)>>)
             ELSE Raised(ConvertExc(kind))
  IN IF try.raised THEN Returned(<<index, NoneValue>>) ELSE try

\* The convert_tasks list: task k converts image_urls[k] with index k - 1.
TaskIds(urls) == 1..Len(urls)
Pending(urls, c) == {k \in TaskIds(urls) : \A j \in 1..Len(c) : c[j].task # k}

\* asyncio.gather: the tasks' return values in the order of the tasks.
gather(c, n) ==
  [k \in 1..n |-> (CHOOSE e \in Range(c) : e.task = k).ret]

\* rs with r inserted before the first element of a greater index.
RECURSIVE InsertByIndex(_, _)
InsertByIndex(rs, r) ==
  IF rs = <<>> THEN <<r>>
  ELSE IF r[1] < Head(rs)[1] THEN <<r>> \o rs
  ELSE <<Head(rs)>> \o InsertByIndex(Tail(rs), r)

\* results.sort(key=lambda x: x[0]): stable, by index.
RECURSIVE SortByIndex(_)
SortByIndex(rs) ==
  IF rs = <<>> THEN <<>>
  ELSE InsertByIndex(SortByIndex(SubSeq(rs, 1, Len(rs) - 1)), rs[Len(rs)])

\* BuildImageSources without its else branch: a failed conversion adds nothing.
BuildImageSources_NoFallback(rs, urls) ==
  LET kept == SelectSeq(rs, LAMBDA r : Truthy(r[2]))
  IN [k \in 1..Len(kept) |-> kept[k][2]]

\* The loop building image_sources: the jpg bytes, or image_urls[idx].
BuildImageSources(rs, urls) ==
  [k \in 1..Len(rs) |->
     IF Truthy(rs[k][2]) THEN rs[k][2] ELSE Str(urls[rs[k][1] + 1])]

\* create_image_contents: one ImageContent per bytes or str source.
create_image_contents(sources) ==
  LET kept == SelectSeq(sources, LAMBDA x : x[1] \in {"bytes", "str"})
  IN [k \in 1..Len(kept) |-> Content("image", kept[k], NoneValue)]

\* list.extend with the new items put in front of the list.
extend_Front(contents, items) == items \o contents

\* contents.extend(items).
extend(contents, items) == contents \o items

\* The _create_jpg_task tasks create_image_contents creates: one per bytes source.
JpgTasksOf(sources) == SelectSeq(sources, LAMBDA x : x[1] = "bytes")

\* The tasks, each with the request whose result holds it.
TasksFor(tasks, r) == [k \in 1..Len(tasks) |-> <<tasks[k][1], tasks[k][2], r>>]

\* --------------------------------------------------------------- handlers

\* Where a handler goes next: pc, chain_i and the request's outcome.
Step(p, i, out) == [pc |-> p, chain_i |-> i, outcome |-> out]

_build_m_douyin_url(ty, vid) ==
  <<"https://", "m.", "douyin", ".com", "/", "share", "/", ty, "/", vid>>

_build_iesdouyin_url(ty, vid) ==
  <<"https://", "www.", "ies", "douyin", ".com", "/", "share", "/", ty, "/", vid>>

\* ChainUrls with the two mirror domains swapped.
ChainUrls_Swapped(ty, vid) ==
  <<_build_iesdouyin_url(ty, vid), _build_m_douyin_url(ty, vid)>>

\* The URLs _parse_douyin's loop goes through.
ChainUrls(ty, vid) == <<_build_m_douyin_url(ty, vid), _build_iesdouyin_url(ty, vid)>>

XhsUrl(route) == <<"https://", "www.", "xiao", "hongshu", ".com", "/">> \o route

\* The URL the strategy op fetches, at position i of the handler's chain.
StrategyUrl(op, m, i) ==
  IF op = "parse_video" THEN ChainUrls(m.ty, m.id)[i]
  ELSE IF op = "parse_slides"
  THEN <<"https://", "www.", "ies", "douyin", ".com", "/", "web/api/v2/aweme/slidesinfo", "/">>
  ELSE IF op = "parse_explore"
  THEN XhsUrl(ReplaceFirst(m.group0, "discovery/item", "explore"))
  ELSE XhsUrl(m.group0)

AllFailed ==
  Exc("ParseException", <<"share deleted or direct link extraction failed">>)

\* _parse_douyin's try/except around parse_video(url), url the i-th of n:
\* a ParseException goes on to the next URL, and past the last one the
\* final ParseException is raised; anything else propagates.
Douyin_except(exc, i, n) ==
  IF exc.type = "ParseException"
  THEN IF i < n THEN Step("parse_video", i + 1, NoOutcome)
       ELSE Step("done", i, Error(AllFailed))
  ELSE Step("done", i, Error(exc))

\* _parse_discovery's try/except around parse_explore: a ParseException
\* falls back to parse_discovery, whose exceptions propagate.
Discovery_except(exc, i) ==
  IF i = 1 /\ exc.type = "ParseException"
  THEN Step("parse_discovery", 2, NoOutcome)
  ELSE Step("done", i, Error(exc))

\* Where an exception raised by strategy op takes handler h.
Unwind(h, op, exc, i) ==
  IF h = "_parse_douyin" /\ op = "parse_video"
  THEN Douyin_except(exc, i, Len(ChainUrls("video", "123")))
  ELSE IF h = "_parse_discovery" THEN Discovery_except(exc, i)
  ELSE Step("done", i, Error(exc))

mediaVars == <<image_urls, conv, results, image_sources>>

\* A strategy from its fetch to its gather (or to its return, without images).
Begin(op, resp, plan) ==
  LET url == StrategyUrl(op, searched, chain_i)
      nx == Unwind(searched.handler, op, plan.exc, chain_i)
      page == Page(resp.net, resp.status, resp.body.marker)
  IN IF plan.raised
     THEN /\ trace' = Append(trace, Ev(op, url, "failed", plan.exc, FALSE, page))
          /\ pc' = nx.pc
          /\ chain_i' = nx.chain_i
          /\ outcome' = nx.outcome
          /\ data' = plan.data
          /\ UNCHANGED mediaVars
     ELSE IF plan.launch
     THEN /\ trace' = Append(trace, Ev(op, url, "running", NoExc, TRUE, page))
          /\ pc' = "gather"
          /\ data' = plan.data
          /\ image_urls' = plan.data.image_urls
          /\ conv' = <<>>
          /\ results' = <<>>
          /\ image_sources' = <<>>
          /\ UNCHANGED <<chain_i, outcome>>
     ELSE /\ trace' = Append(trace, Ev(op, url, "ok", NoExc, FALSE, page))
          /\ pc' = "done"
          /\ data' = plan.data
          /\ outcome' = Result(plan.contents)
          /\ UNCHANGED <<chain_i, mediaVars>>

\* ---------------------------------------------------------------- actions

Init ==
  /\ registry = Rules
  /\ request = 1
  /\ text \in RequestLinks
  /\ searched = NotMatched
  /\ pc = "dispatch"
  /\ trace = <<>>
  /\ chain_i = 0
  /\ data = NoView
  /\ image_urls = <<>>
  /\ conv = <<>>
  /\ results = <<>>
  /\ image_sources = <<>>
  /\ jpg_tasks = <<>>
  /\ _temp_files = <<>>
  /\ outcome = NoOutcome

\* The dispatcher: the first matching rule's handler is run on the match.
Dispatch ==
  /\ pc = "dispatch"
  /\ LET m == match(registry, text)
     IN /\ searched' = m
        /\ trace' = Append(trace, Ev("dispatch", m.keyword,
                                     IF m.rule = 0 THEN "failed" ELSE "ok",
                                     NoExc, FALSE, NoPage))
        /\ pc' = IF m.rule = 0 THEN "done" ELSE m.handler
        /\ outcome' = IF m.rule = 0 THEN Error(Exc("NotMatched", <<>>)) ELSE outcome
  /\ text' = <<>>
  /\ UNCHANGED <<registry, request, chain_i, data, mediaVars, jpg_tasks, _temp_files>>

\* _parse_short_link handing its link to the mirror-domain chain, with no
\* redirect resolution.
Douyin_parse_short_link_NoRedirect ==
  /\ pc = "Douyin_parse_short_link"
  /\ pc' = "parse_video"
  /\ chain_i' = 1
  /\ searched' = [searched EXCEPT !.ty = "video", !.id = "123"]
  /\ UNCHANGED <<registry, request, text, trace, data, mediaVars, jpg_tasks, _temp_files,
                 outcome>>

\* DouyinParser._parse_short_link.
Douyin_parse_short_link ==
  /\ pc = "Douyin_parse_short_link"
  /\ trace' = Append(trace, Ev("redirect", <<"https://">> \o searched.group0,
                               "running", NoExc, FALSE, NoPage))
  /\ pc' = "parse_with_redirect"
  /\ UNCHANGED <<registry, request, text, searched, chain_i, data, mediaVars, jpg_tasks,
                 _temp_files, outcome>>

\* XiaoHongShuParser._parse_short_link.
Xhs_parse_short_link ==
  /\ pc = "Xhs_parse_short_link"
  /\ trace' = Append(trace, Ev("redirect", <<"https://">> \o searched.group0,
                               "running", NoExc, FALSE, NoPage))
  /\ pc' = "parse_with_redirect"
  /\ UNCHANGED <<registry, request, text, searched, chain_i, data, mediaVars, jpg_tasks,
                 _temp_files, outcome>>

ShortLinkHandlers == {"Douyin_parse_short_link", "Xhs_parse_short_link"}

Redirects(tr) == Len(SelectSeq(tr, LAMBDA e : e.op = "redirect"))

\* The Location headers a short link can answer with: any link, and no
\* further short link once MaxRedirects redirects were followed.
Locations(tr) ==
  IF Redirects(tr) < MaxRedirects THEN RequestLinks
  ELSE {l \in RequestLinks : match(Rules, l).handler \notin ShortLinkHandlers}

\* BaseParser.parse_with_redirect: the fetch that does not follow redirects,
\* then the dispatch of the Location; a failed fetch ends the request.
parse_with_redirect ==
  /\ pc = "parse_with_redirect"
  /\ \/ /\ trace' = EndLast(trace, "failed", Exc("FetchError", <<"redirect">>))
        /\ outcome' = Error(Exc("FetchError", <<"redirect">>))
        /\ pc' = "done"
        /\ text' = text
     \/ \E l \in Locations(trace) :
          /\ trace' = EndLast(trace, "ok", NoExc)
          /\ text' = <<"https://">> \o l
          /\ pc' = "dispatch"
          /\ outcome' = outcome
  /\ UNCHANGED <<registry, request, searched, chain_i, data, mediaVars, jpg_tasks, _temp_files>>

\* _parse_douyin without its `if ty == "slides"`: every type goes through the
\* mirror domains.
_parse_douyin_NoSlides ==
  /\ pc = "_parse_douyin"
  /\ pc' = "parse_video"
  /\ chain_i' = 1
  /\ UNCHANGED <<registry, request, text, searched, trace, data, mediaVars,
                 jpg_tasks, _temp_files, outcome>>

\* DouyinParser._parse_douyin up to its first strategy.
_parse_douyin ==
  /\ pc = "_parse_douyin"
  /\ IF searched.ty = "slides"
     THEN pc' = "parse_slides" /\ chain_i' = 0
     ELSE pc' = "parse_video" /\ chain_i' = 1
  /\ UNCHANGED <<registry, request, text, searched, trace, data, mediaVars, jpg_tasks,
                 _temp_files, outcome>>

\* XiaoHongShuParser._parse_explore.
_parse_explore ==
  /\ pc = "_parse_explore"
  /\ pc' = "parse_explore"
  /\ chain_i' = 0
  /\ UNCHANGED <<registry, request, text, searched, trace, data, mediaVars, jpg_tasks,
                 _temp_files, outcome>>

\* XiaoHongShuParser._parse_discovery up to its first strategy.
_parse_discovery ==
  /\ pc = "_parse_discovery"
  /\ pc' = "parse_explore"
  /\ chain_i' = 1
  /\ UNCHANGED <<registry, request, text, searched, trace, data, mediaVars, jpg_tasks,
                 _temp_files, outcome>>

parse_video ==
  /\ pc = "parse_video"
  /\ \E resp \in DouyinResponses : Begin("parse_video", resp, parse_video_plan(resp))
  /\ UNCHANGED <<registry, request, text, searched, jpg_tasks, _temp_files>>

parse_slides ==
  /\ pc = "parse_slides"
  /\ \E resp \in SlidesResponses : Begin("parse_slides", resp, parse_slides_plan(resp))
  /\ UNCHANGED <<registry, request, text, searched, jpg_tasks, _temp_files>>

parse_explore ==
  /\ pc = "parse_explore"
  /\ \E resp \in ExploreResponses : Begin("parse_explore", resp, parse_explore_plan(resp))
  /\ UNCHANGED <<registry, request, text, searched, jpg_tasks, _temp_files>>

parse_discovery ==
  /\ pc = "parse_discovery"
  /\ \E resp \in DiscoveryResponses :
       Begin("parse_discovery", resp, parse_discovery_plan(resp))
  /\ UNCHANGED <<registry, request, text, searched, jpg_tasks, _temp_files>>

\* One conversion task ends while the strategy awaits gather; an exception
\* leaving the task would leave gather and the strategy.
ConvertDone ==
  /\ pc = "gather"
  /\ \E k \in Pending(image_urls, conv), kind \in ConvertKinds :
       LET r == _convert_webp_to_jpg(image_urls[k], k - 1, kind)
           nx == Unwind(searched.handler, Last(trace).op, r.exc, chain_i)
       IN IF r.raised
          THEN /\ trace' = EndLast(trace, "failed", r.exc)
               /\ pc' = nx.pc
               /\ chain_i' = nx.chain_i
               /\ outcome' = nx.outcome
               /\ conv' = conv
          ELSE /\ conv' = Append(conv, [task |-> k, ret |-> r.value])
               /\ UNCHANGED <<trace, pc, chain_i, outcome>>
  /\ UNCHANGED <<registry, request, text, searched, data, image_urls, results,
                 image_sources, jpg_tasks, _temp_files>>

\* gather returns: the results are sorted, the image sources and contents
\* built (parse_slides appends the dynamic contents) and the result returned.
GatherDone ==
  /\ pc = "gather"
  /\ Pending(image_urls, conv) = {}
  /\ LET rs == SortByIndex(gather(conv, Len(image_urls)))
         srcs == BuildImageSources(rs, image_urls)
         dyn == IF Last(trace).op = "parse_slides"
                THEN create_dynamic_contents(data.dynamic_urls) ELSE <<>>
     IN /\ results' = rs
        /\ image_sources' = srcs
        /\ jpg_tasks' = jpg_tasks \o TasksFor(JpgTasksOf(srcs), request)
        /\ outcome' = Result(extend(extend(<<>>, create_image_contents(srcs)), dyn))
  /\ trace' = EndLast(trace, "ok", NoExc)
  /\ pc' = "done"
  /\ UNCHANGED <<registry, request, text, searched, chain_i, data, image_urls, conv,
                 _temp_files>>

\* _create_jpg_task: the oldest task created runs, writes its temporary file
\* and appends its path (the file of that jpg_data, written for that
\* request) to self._temp_files.
_create_jpg_task ==
  /\ jpg_tasks # <<>>
  /\ _temp_files' = Append(_temp_files,
                           <<"tmp.jpg", Head(jpg_tasks)[2], Head(jpg_tasks)[3]>>)
  /\ jpg_tasks' = Tail(jpg_tasks)
  /\ UNCHANGED <<registry, request, text, searched, pc, trace, chain_i, data, mediaVars,
                 outcome>>

Next ==
  \/ Dispatch
  \/ Douyin_parse_short_link
  \/ Xhs_parse_short_link
  \/ parse_with_redirect
  \/ _parse_douyin
  \/ _parse_explore
  \/ _parse_discovery
  \/ parse_video
  \/ parse_slides
  \/ parse_explore
  \/ parse_discovery
  \/ ConvertDone
  \/ GatherDone
  \/ _create_jpg_task

Spec == Init /\ [][Next]_vars

\* The next request arrives at the same parser instance: the handler's
\* coroutine and its locals are new, self and the tasks still running are not.
NewRequest ==
  /\ pc = "done"
  /\ request < MaxRequests
  /\ request' = request + 1
  /\ text' \in RequestLinks
  /\ searched' = NotMatched
  /\ pc' = "dispatch"
  /\ trace' = <<>>
  /\ chain_i' = 0
  /\ data' = NoView
  /\ image_urls' = <<>>
  /\ conv' = <<>>
  /\ results' = <<>>
  /\ image_sources' = <<>>
  /\ outcome' = NoOutcome
  /\ UNCHANGED <<registry, jpg_tasks, _temp_files>>

NextRequests == Next \/ NewRequest

SpecRequests == Init /\ [][NextRequests]_vars

CancelledError == Exc("asyncio.CancelledError", <<>>)

Cancelled == <<"cancelled", "cancelled">>

\* The task ids in ks, in increasing order.
RECURSIVE Ascending(_)
Ascending(ks) ==
  IF ks = {} THEN <<>>
  ELSE LET k == CHOOSE a \in ks : \A b \in ks : a <= b
       IN <<k>> \o Ascending(ks \ {k})

\* A cancelled gather that leaves its children running.
CancelChildren_None(urls, c) == c

\* The cancellation of `await asyncio.gather(*convert_tasks)`: gather cancels
\* every child not yet done, and CancelledError, which is no Exception,
\* passes _convert_webp_to_jpg's except clause.
CancelChildren(urls, c) ==
  LET ks == Ascending(Pending(urls, c))
  IN c \o [j \in 1..Len(ks) |-> [task |-> ks[j], ret |-> <<ks[j] - 1, Cancelled>>]]

\* The points at which the request's coroutine is suspended.
Awaits == Strategies \cup {"gather", "parse_with_redirect"}

\* The request is cancelled (or its caller's timeout expires) while it awaits
\* a fetch or the gather: CancelledError is raised at the await, no handler
\* catches it, and the conversions still running are cancelled with it.
Cancel ==
  /\ pc \in Awaits
  /\ trace' = IF pc \in Strategies
              THEN Append(trace, Ev(pc, StrategyUrl(pc, searched, chain_i),
                                    "cancelled", CancelledError, FALSE, NoPage))
              ELSE EndLast(trace, "cancelled", CancelledError)
  /\ conv' = IF pc = "gather" THEN CancelChildren(image_urls, conv) ELSE conv
  /\ pc' = "done"
  /\ outcome' = Error(CancelledError)
  /\ UNCHANGED <<registry, request, text, searched, chain_i, data, image_urls,
                 results, image_sources, jpg_tasks, _temp_files>>

NextCancel == Next \/ Cancel

SpecCancel == Init /\ [][NextCancel]_vars

\* Video.video_url and the note's video_url alone: a decoded note, and the
\* two properties read.
InitStream ==
  /\ registry = Rules
  /\ request = 1
  /\ text = <<>>
  /\ searched = NotMatched
  /\ pc = "video_url"
  /\ trace = <<>>
  /\ chain_i = 0
  /\ data \in StreamNotes
  /\ image_urls = <<>>
  /\ conv = <<>>
  /\ results = <<>>
  /\ image_sources = <<>>
  /\ jpg_tasks = <<>>
  /\ _temp_files = <<>>
  /\ outcome = NoOutcome

\* results: what Video.video_url gives on the note's streams, then what the
\* note's video_url gives.
video_url ==
  /\ pc = "video_url"
  /\ LET url == Video_video_url(data.video.stream)
     IN results' = <<url,
                     Note_video_url([type |-> data.type,
                                     video |-> [present |-> data.video.present,
                                                video_url |-> url]])>>
  /\ pc' = "returned"
  /\ UNCHANGED <<registry, request, text, searched, trace, chain_i, data,
                 image_urls, conv, image_sources, jpg_tasks, _temp_files, outcome>>

NextStream == video_url

SpecStream == InitStream /\ [][NextStream]_vars

\* The dispatcher alone: a registry and a text, and the match.
InitMatch ==
  /\ registry \in Registries
  /\ request = 1
  /\ text \in Texts
  /\ searched = NotMatched
  /\ pc = "match"
  /\ trace = <<>>
  /\ chain_i = 0
  /\ data = NoView
  /\ image_urls = <<>>
  /\ conv = <<>>
  /\ results = <<>>
  /\ image_sources = <<>>
  /\ jpg_tasks = <<>>
  /\ _temp_files = <<>>
  /\ outcome = NoOutcome

MatchStep ==
  /\ pc = "match"
  /\ searched' = match(registry, text)
  /\ pc' = "matched"
  /\ UNCHANGED <<registry, request, text, trace, chain_i, data, mediaVars, jpg_tasks,
                 _temp_files, outcome>>

NextMatch == MatchStep

SpecMatch == InitMatch /\ [][NextMatch]_vars

\* ------------------------------------------------------------------ claims

Att == Attempts(trace)

\* The return value of conversion task k (which converts image_urls[k]).
TaskRet(k) == (CHOOSE e \in Range(conv) : e.task = k).ret

\* The request returned the result of a strategy that converted images.
ImagesReturned ==
  /\ pc = "done"
  /\ outcome.kind = "result"
  /\ trace # <<>>
  /\ Last(trace).launched

\* C1: whatever the order in which the N conversions complete and whichever
\* of them fail, the image sources built after gather have length N, source
\* i being the JPG of input URL i when its conversion succeeded and the URL
\* itself when it failed, and the result's first N contents are the images
\* of these sources, in order.
C1_OrderInvariance ==
  ImagesReturned =>
    LET n == Len(image_urls)
    IN /\ Len(image_sources) = n
       /\ Len(outcome.contents) >= n
       /\ \A k \in 1..n :
            /\ image_sources[k] = IF TaskRet(k)[2] = NoneValue
                                  THEN Str(image_urls[k])
                                  ELSE Bytes(image_urls[k])
            /\ outcome.contents[k] = Content("image", image_sources[k], NoneValue)

\* C1's case: two conversions that completed in the reverse of their input
\* order, the first input's succeeding and the second's failing.
C1_Witness ==
  /\ ImagesReturned
  /\ Len(conv) = 2
  /\ conv[1].task = 2
  /\ conv[1].ret[2] = NoneValue
  /\ conv[2].ret[2] # NoneValue
  /\ image_urls[1] # image_urls[2]

\* C7: a strategy that launched its conversions never fails and is the last
\* one attempted, however many conversions fail, and the request that
\* awaited them returns a result.
C7_PartialFailureNotFatal ==
  /\ \A k \in 1..Len(Att) :
       Att[k].launched => (Att[k].st # "failed" /\ k = Len(Att))
  /\ (pc = "done" /\ trace # <<>> /\ Last(trace).launched) =>
       outcome.kind = "result"

\* C7's case: every conversion of a post of several images failed and the
\* request returned a result.
C7_Witness ==
  /\ ImagesReturned
  /\ Len(conv) >= 2
  /\ \A j \in 1..Len(conv) : conv[j].ret[2] = NoneValue

\* A request that went into a chain of two strategies (the mirror domains of
\* _parse_douyin, explore then discovery of _parse_discovery).
InChain == chain_i >= 1

\* C2 (as claimed): when the strategies of a chain of K = 2 fail, the
\* request ends after exactly 2 attempts, of different strategies, all
\* failed, and _parse_douyin ends in its all-failed error.
C2_FallbackTermination ==
  (pc = "done" /\ InChain /\ outcome.kind = "error") =>
    /\ Len(Att) = 2
    /\ Att[1].arg # Att[2].arg
    /\ \A k \in 1..Len(Att) : Att[k].st = "failed"
    /\ (searched.handler = "_parse_douyin" => outcome.exc = AllFailed)

\* What identifies the k-th strategy of the handler's chain in its URL.
ChainMark(m, k) ==
  IF m.handler = "_parse_douyin"
  THEN IF k = 1 THEN <<"https://", "m.", "douyin", ".com", "/", "share", "/", m.ty>>
       ELSE <<"https://", "www.", "ies", "douyin", ".com", "/", "share", "/", m.ty>>
  ELSE IF k = 1 THEN <<"hongshu", ".com", "/", "explore", "/">>
       ELSE <<"hongshu", ".com", "/", "discovery/item", "/">>

ChainOp(m, k) ==
  IF m.handler = "_parse_douyin" THEN "parse_video"
  ELSE IF k = 1 THEN "parse_explore" ELSE "parse_discovery"

\* C3: the strategies of a chain are attempted in their configured order, a
\* strategy only after every earlier one failed, and a strategy that
\* succeeded is the last one attempted, the request ending with its result.
C3_SequentialFirstSuccess ==
  InChain =>
    /\ Len(Att) <= 2
    /\ \A k \in 1..Len(Att) :
         /\ Att[k].op = ChainOp(searched, k)
         /\ KeywordIn(ChainMark(searched, k), Att[k].arg)
         /\ k < Len(Att) => Att[k].st = "failed"
         /\ Att[k].st = "ok" =>
              (k = Len(Att) /\ pc = "done" /\ outcome.kind = "result")
         /\ Att[k].st = "running" => (k = Len(Att) /\ pc = "gather")

\* C3's case: the first strategy failed and the second succeeded.
C3_Witness ==
  /\ InChain
  /\ Len(Att) = 2
  /\ Att[1].st = "failed"
  /\ Att[2].st = "ok"
  /\ outcome.kind = "result"

RecoverableTypes ==
  {"ParseException", "httpx.TransportError", "msgspec.DecodeError",
   "json.JSONDecodeError", "msgspec.ValidationError"}

\* C4 (as claimed): a strategy that is not the last of its chain and fails
\* with a fetch or extraction error does not end the request: the next
\* strategy is attempted.
C4_RecoverableAdvances ==
  (InChain /\ Len(Att) = 1 /\ Att[1].st = "failed"
     /\ Att[1].exc.type \in RecoverableTypes) =>
    pc # "done"

\* C5 (as claimed): a result whose data carried a video URL holds the video
\* and no image.
C5_VideoPriority ==
  (outcome.kind = "result" /\ data.video_url # None) =>
    /\ \E k \in 1..Len(outcome.contents) :
         outcome.contents[k].kind = "video"
    /\ \A k \in 1..Len(outcome.contents) :
         outcome.contents[k].kind # "image"

\* C6 (as claimed): a result has at least one content.
C6_NonEmptyContents ==
  outcome.kind = "result" => Len(outcome.contents) >= 1

ShortKeywords == {<<"v.", "douyin">>, <<"jx.", "douyin">>, <<"xhslink", ".com">>}

\* C8: after a dispatch to a short-link rule the next thing the request does
\* is the redirect resolution of https://<matched text>; nothing but a new
\* dispatch follows a resolved redirect, so no strategy is attempted before
\* it, and a failed redirect ends the request in an error, no chain entered.
C8_RedirectFirst ==
  \A i \in 1..Len(trace) :
    (trace[i].op = "dispatch" /\ trace[i].arg \in ShortKeywords) =>
      /\ (i = Len(trace)) => pc \in ShortLinkHandlers
      /\ (i < Len(trace)) =>
           /\ trace[i + 1].op = "redirect"
           /\ trace[i + 1].arg[1] = "https://"
           /\ KeywordIn(trace[i].arg, trace[i + 1].arg)
           /\ trace[i + 1].st = "failed" =>
                /\ Len(trace) = i + 1
                /\ pc = "done"
                /\ outcome.kind = "error"
                /\ ~InChain
           /\ (i + 1 < Len(trace)) =>
                /\ trace[i + 1].st = "ok"
                /\ trace[i + 2].op = "dispatch"

\* C8's case: a short link was resolved, its target dispatched and a
\* strategy attempted.
C8_Witness ==
  /\ Len(trace) >= 4
  /\ trace[1].arg \in ShortKeywords
  /\ trace[2].op = "redirect"
  /\ trace[2].st = "ok"
  /\ trace[4].op \in Strategies

\* The rules of the registry that match the text.
Matching == {i \in 1..Len(registry) :
               /\ KeywordIn(registry[i].keyword, text)
               /\ Search(registry[i].pat, text).found}

Least(S) == CHOOSE i \in S : \A j \in S : i <= j

\* C9: the match is the first rule of the registry, in registration order,
\* whose keyword occurs in the text and whose pattern matches, and its handler
\* the one routed to; with that rule removed the same text goes to the next
\* matching rule; a text no rule matches gives NotMatched.
C9_DispatcherDeterminism ==
  pc = "matched" =>
    /\ Matching = {} => searched = NotMatched
    /\ Matching # {} =>
         LET a == Least(Matching)
             rest == Matching \ {a}
             removed == match(Without(registry, {registry[a].keyword}), text)
         IN /\ searched.rule = a
            /\ searched.handler = registry[a].handler
            /\ searched.keyword = registry[a].keyword
            /\ rest = {} => removed = NotMatched
            /\ rest # {} =>
                 /\ removed.keyword = registry[Least(rest)].keyword
                 /\ removed.handler = registry[Least(rest)].handler

\* C9's case: two rules with different handlers match the text.
C9_Witness ==
  /\ pc = "matched"
  /\ \E a, b \in Matching :
       /\ a < b
       /\ registry[a].handler # registry[b].handler
       /\ searched.rule = a

MarkerStrategies == {"parse_video", "parse_explore", "parse_discovery"}

\* The attempt extracted from a body that lacks its state marker.
MarkerMissing(e) ==
  /\ e.op \in MarkerStrategies
  /\ e.page.net = "ok"
  /\ e.page.marker = "absent"
  /\ e.op = "parse_video" => e.page.status = 200

MarkerName(op) == IF op = "parse_video" THEN "_ROUTER_DATA" ELSE "__INITIAL_STATE__"

\* C10 (as claimed): a strategy whose body lacks the marker fails with an
\* extraction error naming the marker, and launches no conversion.
C10_MarkerNotFound ==
  \A k \in 1..Len(Att) :
    MarkerMissing(Att[k]) =>
      /\ Att[k].st = "failed"
      /\ ~Att[k].launched
      /\ Att[k].exc.type = "ParseException"
      /\ MarkerName(Att[k].op) \in Range(Att[k].exc.msg)

\* C10 (amended): a strategy whose body lacks the marker fails with a
\* ParseException and launches no conversion; parse_video's names
\* _ROUTER_DATA, Xiaohongshu's says that the link is invalid or the content
\* deleted and names no marker.
C10_MarkerNotFoundAmended ==
  \A k \in 1..Len(Att) :
    MarkerMissing(Att[k]) =>
      /\ Att[k].st = "failed"
      /\ ~Att[k].launched
      /\ Att[k].exc.type = "ParseException"
      /\ Att[k].op = "parse_video" => "_ROUTER_DATA" \in Range(Att[k].exc.msg)
      /\ Att[k].op # "parse_video" =>
           Att[k].exc.msg = <<"xiaohongshu share link invalid or content deleted">>

\* C10's case: an explore page without the marker, after which the
\* discovery page was attempted.
C10_Witness ==
  /\ Len(Att) = 2
  /\ Att[1].op = "parse_explore"
  /\ MarkerMissing(Att[1])
  /\ Att[1].page.status = 200

\* The last strategy attempted.
LastAtt == Att[Len(Att)]

\* C11: a parse_slides result whose data has N image URLs and M dynamic URLs
\* holds N + M contents: the N images in input order, then the M dynamic
\* items in input order; no dynamic item comes before an image.
C11_DynamicAfterImages ==
  (pc = "done" /\ outcome.kind = "result" /\ Att # <<>>
     /\ LastAtt.op = "parse_slides" /\ data.image_urls # <<>>) =>
    LET n == Len(data.image_urls)
        m == Len(data.dynamic_urls)
        cs == outcome.contents
    IN /\ Len(cs) = n + m
       /\ \A k \in 1..n :
            /\ cs[k].kind = "image"
            /\ cs[k].src \in {Str(data.image_urls[k]), Bytes(data.image_urls[k])}
       /\ \A j \in 1..m :
            cs[n + j] = Content("dynamic", Str(data.dynamic_urls[j]), NoneValue)
       /\ \A a, b \in 1..Len(cs) :
            (cs[a].kind = "dynamic" /\ cs[b].kind = "image") => b < a

\* C11's case: a slides post of two different images and a dynamic item.
C11_Witness ==
  /\ pc = "done"
  /\ outcome.kind = "result"
  /\ Att # <<>>
  /\ LastAtt.op = "parse_slides"
  /\ Len(data.image_urls) = 2
  /\ data.image_urls[1] # data.image_urls[2]
  /\ Len(data.dynamic_urls) >= 1

\* C12: each conversion task completes at most once and reports its own
\* index; a failed conversion leaves the strategy awaiting the others; the
\* results and the image sources are built only once all N tasks completed,
\* and the results then hold each index 0..N-1 exactly once.
C12_BestEffort ==
  /\ \A i, j \in 1..Len(conv) : conv[i].task = conv[j].task => i = j
  /\ \A j \in 1..Len(conv) :
       /\ conv[j].task \in TaskIds(image_urls)
       /\ conv[j].ret[1] = conv[j].task - 1
  /\ (pc = "gather" /\ \E j \in 1..Len(conv) : conv[j].ret[2] = NoneValue) =>
       (LastAtt.st = "running" /\ outcome = NoOutcome)
  /\ (results # <<>> \/ image_sources # <<>>) =>
       /\ Pending(image_urls, conv) = {}
       /\ Len(conv) = Len(image_urls)
  /\ ImagesReturned =>
       /\ Len(conv) = Len(image_urls)
       /\ Len(results) = Len(image_urls)
       /\ \A idx \in 0..(Len(image_urls) - 1) :
            Cardinality({k \in 1..Len(results) : results[k][1] = idx}) = 1

\* C12's case: the first conversion to complete failed, the other completed
\* after it and succeeded, and the sources were built.
C12_Witness ==
  /\ ImagesReturned
  /\ Len(conv) = 2
  /\ conv[1].ret[2] = NoneValue
  /\ conv[2].ret[2] # NoneValue
  /\ Len(image_sources) = 2

\* The requests that wrote to self._temp_files.
Writers == {_temp_files[k][3] : k \in 1..Len(_temp_files)}

\* C13 (as claimed): the record of temporary artifacts is owned by one
\* request: no two requests write to self._temp_files.
C13_RequestIsolation == Cardinality(Writers) <= 1

WasCancelled == outcome.exc = CancelledError

\* C14: once the request is cancelled it has ended, none of its conversion
\* tasks is in flight (each completed before the cancellation or was
\* cancelled by it), the results were not assembled, and it created no
\* temp-file-writing task and no temporary file: a temporary file exists
\* only for a result that was returned.
C14_CancelReleases ==
  /\ WasCancelled =>
       /\ pc = "done"
       /\ Pending(image_urls, conv) = {}
       /\ results = <<>>
       /\ image_sources = <<>>
       /\ jpg_tasks = <<>>
       /\ _temp_files = <<>>
  /\ (jpg_tasks # <<>> \/ _temp_files # <<>>) => outcome.kind = "result"

\* C14's case: the request was cancelled in its gather, one conversion done
\* and the other still running.
C14_Witness ==
  /\ WasCancelled
  /\ Len(image_urls) = 2
  /\ Len(conv) = 2
  /\ conv[1].ret[2] # Cancelled
  /\ conv[2].ret[2] = Cancelled

\* C15 (as claimed): a page-fetching strategy whose response has a status
\* other than 200 fails with a status error, nothing extracted from the body
\* and no conversion launched.
C15_StatusGate ==
  \A k \in 1..Len(Att) :
    (Att[k].op \in MarkerStrategies /\ Att[k].page.net = "ok"
       /\ Att[k].page.status # 200) =>
      /\ Att[k].st = "failed"
      /\ ~Att[k].launched
      /\ "status:" \in Range(Att[k].exc.msg)

\* C16: for a Douyin link of type slides the only strategy attempted is
\* parse_slides, once, and its failure is the request's; for the types video
\* and note parse_slides is never attempted.
C16_SlidesBypass ==
  searched.handler = "_parse_douyin" =>
    IF searched.ty = "slides"
    THEN /\ Len(Att) <= 1
         /\ ~InChain
         /\ pc = "done" => Len(Att) = 1
         /\ \A k \in 1..Len(Att) :
              /\ Att[k].op = "parse_slides"
              /\ Att[k].st = "failed" =>
                   (pc = "done" /\ outcome = Error(Att[k].exc))
    ELSE \A k \in 1..Len(Att) : Att[k].op = "parse_video"

\* C16's case: a slides link whose parse_slides failed on the status of its
\* response, the request over.
C16_Witness ==
  /\ searched.handler = "_parse_douyin"
  /\ searched.ty = "slides"
  /\ pc = "done"
  /\ Len(Att) = 1
  /\ Att[1].st = "failed"
  /\ Att[1].exc.type = "httpx.HTTPStatusError"

\* Nothing of the media pipeline exists: no conversion launched or done, no
\* temp-file-writing task, no temporary file recorded.
NothingBehind ==
  /\ image_urls = <<>>
  /\ conv = <<>>
  /\ results = <<>>
  /\ image_sources = <<>>
  /\ jpg_tasks = <<>>
  /\ _temp_files = <<>>

\* C17: a strategy that failed launched no conversion; when the next
\* strategy of the chain is about to start, and when the request ends in an
\* error, no conversion task exists and the record of temporary files is as
\* it was before the failed strategy (empty).
C17_FailedLeavesNothing ==
  /\ \A k \in 1..Len(Att) : Att[k].st = "failed" => ~Att[k].launched
  /\ (Att # <<>> /\ pc \in Strategies) =>
       (LastAtt.st = "failed" /\ NothingBehind)
  /\ (pc = "done" /\ outcome.kind = "error") => NothingBehind

\* C17's case: the first strategy of a chain failed and the second is about
\* to start.
C17_Witness ==
  /\ InChain
  /\ Len(Att) = 1
  /\ Att[1].st = "failed"
  /\ chain_i = 2
  /\ pc \in {"parse_video", "parse_discovery"}

XhsStrategies == {"parse_explore", "parse_discovery"}

\* The last attempt read a note with a video URL and an empty image list.
VideoWithoutImages ==
  /\ Att # <<>>
  /\ LastAtt.op \in XhsStrategies
  /\ LastAtt.st # "cancelled"
  /\ data.video_url # None
  /\ data.image_urls = <<>>

\* C18 (as claimed): a note with a video URL and an empty image list is
\* returned by parse_explore and by parse_discovery as a result whose only
\* content is the video, its cover absent (or, in parse_discovery, the
\* preload image when there is one).
C18_VideoWithoutCover ==
  VideoWithoutImages =>
    /\ LastAtt.st = "ok"
    /\ outcome.kind = "result"
    /\ Len(outcome.contents) = 1
    /\ outcome.contents[1].kind = "video"
    /\ outcome.contents[1].cover \in {NoneValue, Str("p0")}

\* The stream lists in the order of preference, and those with entries.
StreamOrder == <<data.video.stream.h265, data.video.stream.h264,
                 data.video.stream.av1, data.video.stream.h266>>
WithEntries == {i \in 1..4 : StreamOrder[i].present /\ StreamOrder[i].entries # <<>>}

\* C19: Video.video_url is the masterUrl of the first entry of the first of
\* h265, h264, av1, h266 that is there and not empty, and None exactly when
\* none is; the note's video_url is None whenever its type is not video or it
\* has no video, whatever the streams, and Video.video_url otherwise.
C19_StreamPriority ==
  pc = "returned" =>
    /\ results[1] = IF WithEntries = {} THEN None
                    ELSE StreamOrder[Least(WithEntries)].entries[1].masterUrl
    /\ (results[1] = None) <=> (WithEntries = {})
    /\ results[2] = IF data.type # "video" \/ ~data.video.present THEN None
                    ELSE results[1]

\* C19's case: no h265, an h264 list of two entries and an av1 list whose
\* first entry differs from h264's.
C19_Witness ==
  /\ pc = "returned"
  /\ data.type = "video"
  /\ data.video.present
  /\ ~HasEntries(data.video.stream.h265)
  /\ Len(data.video.stream.h264.entries) = 2
  /\ data.video.stream.h264.entries[1] # data.video.stream.h264.entries[2]
  /\ HasEntries(data.video.stream.av1)
  /\ data.video.stream.av1.entries[1] # data.video.stream.h264.entries[1]
  /\ results[1] = data.video.stream.h264.entries[1].masterUrl

====
